---- MODULE Spec2Model ----
(***************************************************************************)
(* Model of the "My Tickets" resolution pipeline of the NFT ticketing      *)
(* front end:                                                              *)
(*   - frontend/src/utils/fallbackImageUtils.js  (fallback image selector) *)
(*   - frontend/src/components/MyTickets.jsx     (resolution pass, render) *)
(*                                                                         *)
(* JavaScript strings are sequences of one-character strings, so that      *)
(* toLowerCase() and includes() are computed and not assumed.  JavaScript  *)
(* values carry their type in the field t.                                 *)
(***************************************************************************)
EXTENDS Integers, Sequences, FiniteSets, TLC

\* ------------------------------------------------------------------------
\* Bounds of the model
\* ------------------------------------------------------------------------
MaxTicketId == 6
MaxCalls == 2
MaxToken == 1
MaxLog == 2
MaxPasses == 2
MaxTime == 2
MaxLedgers == 4

\* ------------------------------------------------------------------------
\* JavaScript values
\* ------------------------------------------------------------------------
Undefined == [t |-> "undefined"]
Null == [t |-> "null"]
Str(s) == [t |-> "string", s |-> s]
Num(n) == [t |-> "number", n |-> n]

UpperChars == <<"A","B","C","D","E","F","G","H","I","J","K","L","M",
                "N","O","P","Q","R","S","T","U","V","W","X","Y","Z">>
LowerChars == <<"a","b","c","d","e","f","g","h","i","j","k","l","m",
                "n","o","p","q","r","s","t","u","v","w","x","y","z">>

LowerChar(c) ==
    IF \E i \in 1..Len(UpperChars) : UpperChars[i] = c
    THEN LowerChars[CHOOSE i \in 1..Len(UpperChars) : UpperChars[i] = c]
    ELSE c

\* String.prototype.toLowerCase
ToLowerCase(s) == [i \in 1..Len(s) |-> LowerChar(s[i])]

\* String.prototype.includes
Includes(s, sub) ==
    \E i \in 0..(Len(s) - Len(sub)) :
        \A j \in 1..Len(sub) : s[i + j] = sub[j]

\* JavaScript truthiness, for the values the model uses
Truthy(v) ==
    CASE v.t = "undefined" -> FALSE
      [] v.t = "null"      -> FALSE
      [] v.t = "string"    -> Len(v.s) > 0
      [] v.t = "number"    -> v.n # 0
      [] OTHER             -> TRUE

\* ------------------------------------------------------------------------
\* fallbackImageUtils.js
\* ------------------------------------------------------------------------
DEFAULT_EVENT_IMAGES == <<
    "https://cdn.pixabay.com/photo/2016/11/23/15/48/audience-1853662_1280.jpg",
    "https://cdn.pixabay.com/photo/2016/11/22/19/15/hand-1850120_1280.jpg",
    "https://cdn.pixabay.com/photo/2017/07/21/23/57/concert-2527495_1280.jpg",
    "https://cdn.pixabay.com/photo/2016/11/29/06/17/audience-1867754_1280.jpg",
    "https://cdn.pixabay.com/photo/2017/01/06/23/03/sunrise-1959227_1280.jpg" >>

DEFAULT_TICKET_IMAGES == <<
    "https://img.freepik.com/free-vector/realistic-concert-entrance-tickets-set_1017-30605.jpg",
    "https://img.freepik.com/free-vector/realistic-golden-ticket-template_52683-35936.jpg",
    "https://img.freepik.com/free-vector/cinema-tickets-set_1017-30634.jpg",
    "https://img.freepik.com/free-vector/realistic-concert-entrance-tickets-set_1017-30605.jpg",
    "https://img.freepik.com/free-vector/realistic-concert-entrance-tickets-set_1017-30605.jpg" >>

CULTURAL_TICKET_IMAGES == <<
    "https://img.freepik.com/free-photo/traditional-cultural-dance-performance-stage_53876-138776.jpg",
    "https://img.freepik.com/free-photo/group-people-traditional-indian-clothes_23-2149064512.jpg",
    "https://img.freepik.com/free-photo/woman-dancing-traditional-chinese-clothing_23-2149064502.jpg",
    "https://img.freepik.com/free-photo/african-american-jazz-musician-playing-trumpet_23-2149071755.jpg",
    "https://img.freepik.com/free-photo/traditional-mexican-hat-with-decorations_23-2149067702.jpg" >>

\* the literal 'cultural'
Cultural == <<"c","u","l","t","u","r","a","l">>

\* array[index] of a JavaScript array: undefined outside the array
At(table, index) ==
    IF index \in 0..(Len(table) - 1) THEN Str(table[index + 1]) ELSE Undefined

\* mutation: the text is searched as it is written
MentionsCultural_CaseSensitive(v) ==
    Truthy(v) /\ v.t = "string" /\ Includes(v.s, Cultural)

\* event.name && event.name.toLowerCase().includes('cultural')
MentionsCultural(v) ==
    Truthy(v) /\ v.t = "string" /\ Includes(ToLowerCase(v.s), Cultural)

\* (typeof ticketId === 'number' ? ticketId : 0)
IndexBase(ticketId) == IF ticketId.t = "number" THEN ticketId.n ELSE 0

\* ticketId === 0 || ticketId === '0'
IsTicketZero(ticketId) == ticketId = Num(0) \/ ticketId = Str(<<"0">>)

getEventFallbackImage(event) ==
    IF ~Truthy(event) THEN At(DEFAULT_EVENT_IMAGES, 0)
    ELSE IF event.eventId.t = "number"
         THEN At(DEFAULT_EVENT_IMAGES, event.eventId.n % Len(DEFAULT_EVENT_IMAGES))
         ELSE Undefined

\* mutation: the special case for ticket #0 is missing
getTicketFallbackImage_NoZeroRule(event, ticketId) ==
    IF ~Truthy(event) THEN At(DEFAULT_TICKET_IMAGES, 0)
    ELSE IF MentionsCultural(event.name) \/ MentionsCultural(event.description)
         THEN At(CULTURAL_TICKET_IMAGES,
                 IndexBase(ticketId) % Len(CULTURAL_TICKET_IMAGES))
         ELSE At(DEFAULT_TICKET_IMAGES,
                 IndexBase(ticketId) % Len(DEFAULT_TICKET_IMAGES))

\* mutation: the default table is indexed one too far
getTicketFallbackImage_OffByOne(event, ticketId) ==
    IF ~Truthy(event) THEN At(DEFAULT_TICKET_IMAGES, 0)
    ELSE IF IsTicketZero(ticketId) THEN At(CULTURAL_TICKET_IMAGES, 0)
    ELSE IF MentionsCultural(event.name) \/ MentionsCultural(event.description)
         THEN At(CULTURAL_TICKET_IMAGES,
                 IndexBase(ticketId) % Len(CULTURAL_TICKET_IMAGES))
         ELSE At(DEFAULT_TICKET_IMAGES,
                 (IndexBase(ticketId) + 1) % Len(DEFAULT_TICKET_IMAGES))

getTicketFallbackImage(event, ticketId) ==
    IF ~Truthy(event) THEN At(DEFAULT_TICKET_IMAGES, 0)
    ELSE IF IsTicketZero(ticketId) THEN At(CULTURAL_TICKET_IMAGES, 0)
    ELSE IF MentionsCultural(event.name) \/ MentionsCultural(event.description)
         THEN At(CULTURAL_TICKET_IMAGES,
                 IndexBase(ticketId) % Len(CULTURAL_TICKET_IMAGES))
         ELSE At(DEFAULT_TICKET_IMAGES,
                 IndexBase(ticketId) % Len(DEFAULT_TICKET_IMAGES))

\* ------------------------------------------------------------------------
\* The ledger, the metadata server and the clock (the environment)
\* ------------------------------------------------------------------------
TokenIds == 0..MaxToken
Passes == 1..MaxPasses
Times == 0..MaxTime

\* addresses as the ledger reports them (checksum case)
UserOnLedger == <<"0","x","A","b">>
OtherOnLedger == <<"0","x","C","d">>
LedgerAddresses == {UserOnLedger, OtherOnLedger}

\* accounts as the wallet reports them to the component
UserAccount == <<"0","x","a","b">>
OtherAccount == <<"0","x","C","d">>
Accounts == {UserAccount, OtherAccount}

\* what the ledger holds for a token: the ticket state and the token URI
TokenSamples == <<
    [eventId |-> 1, used |-> FALSE, locked |-> FALSE, uri |-> [scheme |-> "ipfs", cid |-> "good"]],
    [eventId |-> 1, used |-> TRUE,  locked |-> TRUE,  uri |-> [scheme |-> "ipfs", cid |-> "emptyobject"]],
    [eventId |-> 2, used |-> FALSE, locked |-> TRUE,  uri |-> [scheme |-> "ipfs", cid |-> "html"]],
    [eventId |-> 2, used |-> TRUE,  locked |-> FALSE, uri |-> [scheme |-> "ipfs", cid |-> "null"]],
    [eventId |-> 2, used |-> FALSE, locked |-> FALSE, uri |-> [scheme |-> "ipfs", cid |-> "down"]] >>

\* the ledgers the model starts from: in ledger k, token t holds sample
\* 2t + k (counted round)
SampleLedger(k) ==
    [t \in TokenIds |-> TokenSamples[((2 * t + k - 1) % Len(TokenSamples)) + 1]]
SampleLedgers == {SampleLedger(k) : k \in 1..MaxLedgers}

\* the event descriptors of the ledger: event 1 is later than event 2
EventTable(eventId) ==
    IF eventId = 1
    THEN [name |-> Str(<<"R","o","c","k"," ","N","i","g","h","t">>), date |-> 2]
    ELSE [name |-> Str(<<"C","u","l","t","u","r","a","l"," ","F","e","s","t">>), date |-> 1]

\* the JSON documents of the metadata server
GoodMetadata ==
    [t |-> "object", name |-> Str(<<"V","I","P">>),
     description |-> Str(<<"F","r","o","n","t">>),
     image |-> Str(<<"i","p","f","s",":","/","/","i","m","g">>)]
EmptyObject == [t |-> "object"]

\* fetch(url): the request fails, or a response arrives whose body is or is
\* not JSON text
HttpGet(url) ==
    CASE url.cid = "down"        -> [ok |-> FALSE]
      [] url.cid = "html"        -> [ok |-> TRUE, json |-> FALSE]
      [] url.cid = "good"        -> [ok |-> TRUE, json |-> TRUE, value |-> GoodMetadata]
      [] url.cid = "emptyobject" -> [ok |-> TRUE, json |-> TRUE, value |-> EmptyObject]
      [] OTHER                   -> [ok |-> TRUE, json |-> TRUE, value |-> Null]

\* ipfsUtils.ipfsToHttp: the content-addressed locator as a gateway URL (of
\* a token URI, or of the text of metadata.image)
ipfsToHttp(uri) ==
    IF "cid" \in DOMAIN uri
    THEN [scheme |-> "https", gateway |-> "ipfs.io", cid |-> uri.cid]
    ELSE [t |-> "string", scheme |-> "https", gateway |-> "ipfs.io", of |-> uri.s]

\* the owner of a token: the recipient of its last Transfer event
RECURSIVE LastTo(_, _)
LastTo(evts, tokenId) ==
    IF evts = <<>> THEN <<>>
    ELSE IF evts[Len(evts)].tokenId = tokenId THEN evts[Len(evts)].to
    ELSE LastTo(SubSeq(evts, 1, Len(evts) - 1), tokenId)

\* ------------------------------------------------------------------------
\* MyTickets.jsx: helpers of fetchUserTickets
\* ------------------------------------------------------------------------
\* contract.queryFilter(contract.filters.Transfer(null, account))
queryFilter(evts, acct) ==
    SelectSeq(evts, LAMBDA e : ToLowerCase(e.to) = ToLowerCase(acct))

\* mutation: the token ids are taken from the events as they come
RECURSIVE UniqueTokenIds_NoSet(_)
UniqueTokenIds_NoSet(evts) ==
    IF evts = <<>> THEN <<>>
    ELSE <<evts[1].tokenId>> \o UniqueTokenIds_NoSet(Tail(evts))

\* [...new Set(events.map(event => event.args.tokenId.toNumber()))]:
\* the distinct token ids, in the order of their first event
RECURSIVE UniqueTokenIds(_)
UniqueTokenIds(evts) ==
    IF evts = <<>> THEN <<>>
    ELSE LET front == UniqueTokenIds(SubSeq(evts, 1, Len(evts) - 1))
             last == evts[Len(evts)].tokenId
         IN IF \E i \in 1..Len(front) : front[i] = last
            THEN front ELSE Append(front, last)

\* mutation: the ownership test is missing
IsCurrentOwner_Always(currentOwner, acct) == TRUE

\* the negation of: currentOwner.toLowerCase() !== account.toLowerCase()
IsCurrentOwner(currentOwner, acct) ==
    ToLowerCase(currentOwner) = ToLowerCase(acct)

\* the decimal digits of a number, as a template literal prints it
RECURSIVE Digits(_)
Digits(n) ==
    LET d == <<"0","1","2","3","4","5","6","7","8","9">>
    IN IF n < 10 THEN <<d[n + 1]>> ELSE Digits(n \div 10) \o <<d[(n % 10) + 1]>>

\* mutation: the catch branch only logs, metadata stays {}
PlaceholderMetadata_Empty(tokenId) == [t |-> "object"]

\* the metadata of the catch branch
PlaceholderMetadata(tokenId) ==
    [t |-> "object",
     name |-> Str(<<"T","i","c","k","e","t"," ","#">> \o Digits(tokenId)),
     description |-> Str(<<"M","e","t","a","d","a","t","a"," ",
                           "u","n","a","v","a","i","l","a","b","l","e">>),
     image |-> Str(<<>>)]

\* the record pushed to userTickets
TicketRecord(tokenId, tk, ev, metadata) ==
    [tokenId |-> tokenId, eventId |-> tk.eventId, eventName |-> ev.name,
     eventDate |-> ev.date, used |-> tk.used, locked |-> tk.locked,
     metadata |-> metadata]

\* (a, b) => a.eventDate - b.eventDate
CompareByDate(a, b) == a.eventDate - b.eventDate

\* mutation: an element is inserted before its equals
RECURSIVE InsertSorted_Unstable(_, _)
InsertSorted_Unstable(sorted, x) ==
    IF sorted = <<>> THEN <<x>>
    ELSE IF CompareByDate(sorted[1], x) >= 0 THEN <<x>> \o sorted
    ELSE <<sorted[1]>> \o InsertSorted_Unstable(Tail(sorted), x)

\* one insertion of a stable sort: x goes behind every element that does not
\* compare greater
RECURSIVE InsertSorted(_, _)
InsertSorted(sorted, x) ==
    IF sorted = <<>> THEN <<x>>
    ELSE IF CompareByDate(sorted[1], x) > 0 THEN <<x>> \o sorted
    ELSE <<sorted[1]>> \o InsertSorted(Tail(sorted), x)

\* userTickets.sort(...): Array.prototype.sort is stable
RECURSIVE SortByDate(_)
SortByDate(list) ==
    IF list = <<>> THEN <<>>
    ELSE InsertSorted(SortByDate(SubSeq(list, 1, Len(list) - 1)), list[Len(list)])

\* isUpcoming(date), the clock read being `read`
isUpcoming(date, read) == date > read

\* ------------------------------------------------------------------------
\* Inputs of the selectors
\* ------------------------------------------------------------------------
SampleTexts == {
    Undefined,
    Str(<<>>),
    Str(<<"R","o","c","k">>),
    Str(<<"c","u","l","t","u","r","a">>),
    Str(<<"C","u","l","t","u","r","a","l"," ","F","e","s","t">>),
    Str(<<"A","G","R","I","C","U","L","T","U","R","A","L">>) }

SampleEvents ==
    {Null, Undefined} \cup
    [t : {"object"}, eventId : {Num(1), Num(7)},
     name : SampleTexts, description : SampleTexts]

SampleTicketIds ==
    {Num(n) : n \in 0..MaxTicketId} \cup {Str(<<"0">>), Str(<<"3">>)}

\* ------------------------------------------------------------------------
\* State
\* ------------------------------------------------------------------------
VARIABLES
    \* the environment
    log,            \* the Transfer events of the ledger, in emission order
    ledger,         \* per token: ticket state and token URI
    \* the props of MyTickets and what the effect did with them
    mounted, isConnected, account,
    \* useState
    tickets, loading, error,
    \* the invocations of fetchUserTickets: position and locals
    pc, passAccount, events, tokenIds, idx, ticket, event, tokenURI, response,
    userTickets,
    \* what an invocation saw (history)
    ownerSeen, outcome,
    \* the invocation that made the last setTickets call: its account, its
    \* candidates, what it saw, the order of its pushes, and whether the one
    \* before it saw the same (history)
    published,
    \* one execution of the render body: position and locals, and what the
    \* clock read in each isUpcoming call of the filters (history)
    renderPc, upcomingTickets, usedTickets, expiredTickets, readAt,
    \* the <img> of every card on the screen: its src, and whether its onError
    \* handler has run
    cards,
    \* the calls of the fallback selectors
    imgCall, imgEvent, imgTicketId, imgResult, imgFirst, imgCount

envVars == <<log, ledger>>
propVars == <<mounted, isConnected, account>>
stateVars == <<tickets, loading, error>>
localVars == <<ticket, event, tokenURI, response>>
passVars == <<pc, passAccount, events, tokenIds, idx, localVars, userTickets,
              ownerSeen, outcome>>
renderVars == <<renderPc, upcomingTickets, usedTickets, expiredTickets, readAt,
                cards>>
imgVars == <<imgCall, imgEvent, imgTicketId, imgResult, imgFirst, imgCount>>
compVars == <<envVars, propVars, stateVars, passVars, published, renderVars>>

vars == <<compVars, imgVars>>

NoReads == [upcoming |-> <<>>, expired |-> <<>>]
NoAddress == <<>>
NoPublication == [account |-> NoAddress]
ErrorMessage ==
    [t |-> "string", text |-> "Failed to load your tickets. Please try again later."]

InitComponent ==
    /\ mounted = FALSE
    /\ isConnected = FALSE
    /\ account = Null
    /\ tickets = <<>>
    /\ loading = TRUE
    /\ error = Null
    /\ pc = [p \in Passes |-> "idle"]
    /\ passAccount = [p \in Passes |-> NoAddress]
    /\ events = [p \in Passes |-> <<>>]
    /\ tokenIds = [p \in Passes |-> <<>>]
    /\ idx = [p \in Passes |-> 0]
    /\ ticket = [p \in Passes |-> Undefined]
    /\ event = [p \in Passes |-> Undefined]
    /\ tokenURI = [p \in Passes |-> Undefined]
    /\ response = [p \in Passes |-> Undefined]
    /\ userTickets = [p \in Passes |-> <<>>]
    /\ ownerSeen = [p \in Passes |-> [t \in TokenIds |-> NoAddress]]
    /\ outcome = [p \in Passes |-> [t \in TokenIds |-> "pending"]]
    /\ published = NoPublication
    /\ renderPc = "idle"
    /\ upcomingTickets = <<>>
    /\ usedTickets = <<>>
    /\ expiredTickets = <<>>
    /\ readAt = NoReads
    /\ cards = <<>>

ImgIdle ==
    /\ imgCall = "none"
    /\ imgEvent = Null
    /\ imgTicketId = Num(0)
    /\ imgResult = Undefined
    /\ imgFirst = Undefined
    /\ imgCount = 0

Init ==
    /\ InitComponent
    /\ log = <<>>
    /\ ledger \in SampleLedgers
    /\ ImgIdle

\* ------------------------------------------------------------------------
\* The environment
\* ------------------------------------------------------------------------
\* the ledger emits Transfer(from, to, tokenId); the filter of the component
\* leaves `from` open, so the model keeps {to, tokenId}
LedgerTransfer(tokenId, to) ==
    /\ renderPc = "idle"
    /\ Len(log) < MaxLog
    /\ log' = Append(log, [to |-> to, tokenId |-> tokenId])
    /\ UNCHANGED <<ledger, propVars, stateVars, passVars, published,
                   renderVars, imgVars>>

\* ------------------------------------------------------------------------
\* MyTickets.jsx: the effect
\* ------------------------------------------------------------------------
Ended(p) == pc[p] \in {"idle", "done", "failed"}

\* mutation: an invocation that starts clears the error
PropsChangeIn_ClearsError(slots, c, a) ==
    /\ renderPc = "idle"
    /\ ~mounted \/ <<c, a>> # <<isConnected, account>>
    /\ mounted' = TRUE
    /\ isConnected' = c
    /\ account' = a
    /\ IF c /\ Truthy(a)
       THEN /\ \E p \in slots : Ended(p)
            /\ LET p == CHOOSE q \in slots :
                           Ended(q) /\ \A r \in slots : r < q => ~Ended(r)
               IN /\ loading' = TRUE
                  /\ error' = Null
                  /\ pc' = [pc EXCEPT ![p] = "getContract"]
                  /\ passAccount' = [passAccount EXCEPT ![p] = a.s]
       ELSE UNCHANGED <<loading, error, pc, passAccount>>
    /\ UNCHANGED <<envVars, tickets, events, tokenIds, idx, localVars,
                   userTickets, ownerSeen, outcome, published, renderVars,
                   imgVars>>

\* The parent renders MyTickets with (new) props and the effect runs:
\* navigate('/') when not connected (it changes nothing the component holds),
\* else fetchUserTickets starts and runs up to its first await.  The
\* invocation takes the first free slot of `slots`.
PropsChangeIn(slots, c, a) ==
    /\ renderPc = "idle"
    /\ ~mounted \/ <<c, a>> # <<isConnected, account>>
    /\ mounted' = TRUE
    /\ isConnected' = c
    /\ account' = a
    /\ IF c /\ Truthy(a)
       THEN /\ \E p \in slots : Ended(p)
            /\ LET p == CHOOSE q \in slots :
                           Ended(q) /\ \A r \in slots : r < q => ~Ended(r)
               IN /\ loading' = TRUE
                  /\ pc' = [pc EXCEPT ![p] = "getContract"]
                  /\ passAccount' = [passAccount EXCEPT ![p] = a.s]
       ELSE UNCHANGED <<loading, pc, passAccount>>
    /\ UNCHANGED <<envVars, tickets, error, events, tokenIds, idx, localVars,
                   userTickets, ownerSeen, outcome, published, renderVars,
                   imgVars>>

\* the props change whenever the parent decides: an invocation may start
\* while earlier ones are in flight
PropsChange(c, a) == PropsChangeIn(Passes, c, a)

\* the account is not replaced by another while an invocation is in flight
PropsChangeWhenSettled(c, a) == PropsChangeIn({1}, c, a)

\* ------------------------------------------------------------------------
\* MyTickets.jsx: fetchUserTickets, one action per await
\* ------------------------------------------------------------------------
NoLocals(p) ==
    /\ ticket' = [ticket EXCEPT ![p] = Undefined]
    /\ event' = [event EXCEPT ![p] = Undefined]
    /\ tokenURI' = [tokenURI EXCEPT ![p] = Undefined]
    /\ response' = [response EXCEPT ![p] = Undefined]

\* mutation: the outer catch leaves loading as it is
ScanFails_KeepsLoading(p) ==
    /\ error' = ErrorMessage
    /\ pc' = [pc EXCEPT ![p] = "failed"]
    /\ passAccount' = [passAccount EXCEPT ![p] = NoAddress]
    /\ UNCHANGED <<envVars, propVars, tickets, loading, events, tokenIds, idx,
                   localVars, userTickets, ownerSeen, outcome, published,
                   renderVars, imgVars>>

\* the outer catch: setError, setLoading(false)
ScanFails(p) ==
    /\ error' = ErrorMessage
    /\ loading' = FALSE
    /\ pc' = [pc EXCEPT ![p] = "failed"]
    /\ passAccount' = [passAccount EXCEPT ![p] = NoAddress]
    /\ UNCHANGED <<envVars, propVars, tickets, events, tokenIds, idx,
                   localVars, userTickets, ownerSeen, outcome, published,
                   renderVars, imgVars>>

\* the invocation of account `acct` that saw the events `found`, the owners
\* `seen` and the outcomes `result` saw what the last publishing one saw
SameAnswers(acct, found, seen, result) ==
    /\ published # NoPublication
    /\ ToLowerCase(published.account) = ToLowerCase(acct)
    /\ published.events = found
    /\ published.ownerSeen = seen
    /\ published.outcome = result

\* mutation: the tickets found are added to those held
Publish_Merges(p, found, ids, list, seen, result) ==
    /\ tickets' = SortByDate(tickets \o list)
    /\ loading' = FALSE
    /\ published' = [account |-> passAccount[p], events |-> found,
                     candidates |-> ids, ownerSeen |-> seen, outcome |-> result,
                     order |-> [i \in 1..Len(list) |-> list[i].tokenId],
                     again |-> SameAnswers(passAccount[p], found, seen, result)]
    /\ pc' = [pc EXCEPT ![p] = "done"]
    /\ passAccount' = [passAccount EXCEPT ![p] = NoAddress]
    /\ events' = [events EXCEPT ![p] = <<>>]
    /\ tokenIds' = [tokenIds EXCEPT ![p] = <<>>]
    /\ idx' = [idx EXCEPT ![p] = 0]
    /\ userTickets' = [userTickets EXCEPT ![p] = <<>>]
    /\ ownerSeen' = [ownerSeen EXCEPT ![p] = [t \in TokenIds |-> NoAddress]]
    /\ outcome' = [outcome EXCEPT ![p] = [t \in TokenIds |-> "pending"]]
    /\ NoLocals(p)

\* the end of the loop: sort, setTickets, setLoading(false); the invocation
\* returns and its locals are gone
Publish(p, found, ids, list, seen, result) ==
    /\ tickets' = SortByDate(list)
    /\ loading' = FALSE
    /\ published' = [account |-> passAccount[p], events |-> found,
                     candidates |-> ids, ownerSeen |-> seen, outcome |-> result,
                     order |-> [i \in 1..Len(list) |-> list[i].tokenId],
                     again |-> SameAnswers(passAccount[p], found, seen, result)]
    /\ pc' = [pc EXCEPT ![p] = "done"]
    /\ passAccount' = [passAccount EXCEPT ![p] = NoAddress]
    /\ events' = [events EXCEPT ![p] = <<>>]
    /\ tokenIds' = [tokenIds EXCEPT ![p] = <<>>]
    /\ idx' = [idx EXCEPT ![p] = 0]
    /\ userTickets' = [userTickets EXCEPT ![p] = <<>>]
    /\ ownerSeen' = [ownerSeen EXCEPT ![p] = [t \in TokenIds |-> NoAddress]]
    /\ outcome' = [outcome EXCEPT ![p] = [t \in TokenIds |-> "pending"]]
    /\ NoLocals(p)

\* the end of one iteration of the loop, whose token ended as `how` and with
\* the owner lookup `seen`: the next token, or the end of the loop
EndOfToken(p, list, seen, how) ==
    LET tokenId == tokenIds[p][idx[p]]
        nowSeen == [ownerSeen[p] EXCEPT ![tokenId] = seen]
        result == [outcome[p] EXCEPT ![tokenId] = how]
    IN IF idx[p] < Len(tokenIds[p])
       THEN /\ idx' = [idx EXCEPT ![p] = @ + 1]
            /\ pc' = [pc EXCEPT ![p] = "ownerOf"]
            /\ userTickets' = [userTickets EXCEPT ![p] = list]
            /\ ownerSeen' = [ownerSeen EXCEPT ![p] = nowSeen]
            /\ outcome' = [outcome EXCEPT ![p] = result]
            /\ NoLocals(p)
            /\ UNCHANGED <<tickets, loading, published, passAccount, events,
                           tokenIds>>
       ELSE Publish(p, events[p], tokenIds[p], list, nowSeen, result)

Running(p, at) == renderPc = "idle" /\ pc[p] = at

CurrentToken(p) == tokenIds[p][idx[p]]

\* await getContract(false)
GetContractReturns(p) ==
    /\ Running(p, "getContract")
    /\ pc' = [pc EXCEPT ![p] = "queryFilter"]
    /\ UNCHANGED <<envVars, propVars, stateVars, passAccount, events, tokenIds,
                   idx, localVars, userTickets, ownerSeen, outcome, published,
                   renderVars, imgVars>>

GetContractFails(p) ==
    /\ Running(p, "getContract")
    /\ ScanFails(p)

\* await contract.queryFilter(filter), then the token ids; with no token the
\* loop is empty and the invocation runs to its end
QueryFilterReturns(p) ==
    /\ Running(p, "queryFilter")
    /\ LET found == queryFilter(log, passAccount[p])
           ids == UniqueTokenIds(found)
       IN IF ids = <<>>
          THEN Publish(p, found, ids, <<>>, ownerSeen[p], outcome[p])
          ELSE /\ events' = [events EXCEPT ![p] = found]
               /\ tokenIds' = [tokenIds EXCEPT ![p] = ids]
               /\ idx' = [idx EXCEPT ![p] = 1]
               /\ pc' = [pc EXCEPT ![p] = "ownerOf"]
               /\ UNCHANGED <<tickets, loading, published, passAccount,
                              localVars, userTickets, ownerSeen, outcome>>
    /\ error' = error
    /\ UNCHANGED <<envVars, propVars, renderVars, imgVars>>

QueryFilterFails(p) ==
    /\ Running(p, "queryFilter")
    /\ ScanFails(p)

\* mutation: the details are asked for before the owner is compared
OwnerOfReturns_NoTest(p) ==
    /\ Running(p, "ownerOf")
    /\ pc' = [pc EXCEPT ![p] = "getTicket"]
    /\ ownerSeen' = [ownerSeen EXCEPT ![p][CurrentToken(p)] =
                        LastTo(log, CurrentToken(p))]
    /\ UNCHANGED <<envVars, propVars, stateVars, passAccount, events, tokenIds,
                   idx, localVars, userTickets, outcome, published, renderVars,
                   imgVars>>

\* await contract.ownerOf(tokenId), then the ownership test
OwnerOfReturns(p) ==
    /\ Running(p, "ownerOf")
    /\ LET currentOwner == LastTo(log, CurrentToken(p))
       IN IF IsCurrentOwner(currentOwner, passAccount[p])
          THEN /\ pc' = [pc EXCEPT ![p] = "getTicket"]
               /\ ownerSeen' = [ownerSeen EXCEPT ![p][CurrentToken(p)] = currentOwner]
               /\ UNCHANGED <<tickets, loading, published, passAccount, events,
                              tokenIds, idx, localVars, userTickets, outcome>>
          ELSE EndOfToken(p, userTickets[p], currentOwner, "notOwner")
    /\ error' = error
    /\ UNCHANGED <<envVars, propVars, renderVars, imgVars>>

\* mutation: no inner catch, the throw of a lookup reaches the outer catch
SkipToken_Rethrows(p) ==
    /\ outcome' = [outcome EXCEPT ![p][tokenIds[p][idx[p]]] = "lookupFailed"]
    /\ error' = ErrorMessage
    /\ loading' = FALSE
    /\ pc' = [pc EXCEPT ![p] = "failed"]
    /\ UNCHANGED <<envVars, propVars, tickets, passAccount, events, tokenIds,
                   idx, localVars, userTickets, ownerSeen, published,
                   renderVars, imgVars>>

\* mutation: the inner catch starts the token again
SkipToken_Retries(p) ==
    /\ pc' = [pc EXCEPT ![p] = "ownerOf"]
    /\ ownerSeen' = [ownerSeen EXCEPT ![p][CurrentToken(p)] = NoAddress]
    /\ NoLocals(p)
    /\ UNCHANGED <<envVars, propVars, stateVars, passAccount, events, tokenIds,
                   idx, userTickets, outcome, published, renderVars, imgVars>>

\* a ledger lookup of the current token throws: the inner catch skips the token
SkipToken(p) ==
    /\ EndOfToken(p, userTickets[p], ownerSeen[p][CurrentToken(p)], "lookupFailed")
    /\ error' = error
    /\ UNCHANGED <<envVars, propVars, renderVars, imgVars>>

OwnerOfFails(p) ==
    /\ Running(p, "ownerOf")
    /\ SkipToken(p)

\* await getTicket(tokenId)
GetTicketReturns(p) ==
    /\ Running(p, "getTicket")
    /\ LET held == ledger[CurrentToken(p)]
       IN ticket' = [ticket EXCEPT ![p] =
                        [eventId |-> held.eventId, used |-> held.used,
                         locked |-> held.locked]]
    /\ pc' = [pc EXCEPT ![p] = "getEvent"]
    /\ UNCHANGED <<envVars, propVars, stateVars, passAccount, events, tokenIds,
                   idx, event, tokenURI, response, userTickets, ownerSeen,
                   outcome, published, renderVars, imgVars>>

GetTicketFails(p) ==
    /\ Running(p, "getTicket")
    /\ SkipToken(p)

\* await getEvent(ticket.eventId)
GetEventReturns(p) ==
    /\ Running(p, "getEvent")
    /\ event' = [event EXCEPT ![p] = EventTable(ticket[p].eventId)]
    /\ pc' = [pc EXCEPT ![p] = "getTokenURI"]
    /\ UNCHANGED <<envVars, propVars, stateVars, passAccount, events, tokenIds,
                   idx, ticket, tokenURI, response, userTickets, ownerSeen,
                   outcome, published, renderVars, imgVars>>

GetEventFails(p) ==
    /\ Running(p, "getEvent")
    /\ SkipToken(p)

\* await getTokenURI(tokenId); ipfsToHttp and the call of fetch follow in the
\* same turn
GetTokenURIReturns(p) ==
    /\ Running(p, "getTokenURI")
    /\ tokenURI' = [tokenURI EXCEPT ![p] = ledger[CurrentToken(p)].uri]
    /\ pc' = [pc EXCEPT ![p] = "fetch"]
    /\ UNCHANGED <<envVars, propVars, stateVars, passAccount, events, tokenIds,
                   idx, ticket, event, response, userTickets, ownerSeen,
                   outcome, published, renderVars, imgVars>>

GetTokenURIFails(p) ==
    /\ Running(p, "getTokenURI")
    /\ SkipToken(p)

\* the token is pushed with `metadata`
Push(p, metadata, how) ==
    EndOfToken(p,
               Append(userTickets[p],
                      TicketRecord(CurrentToken(p), ticket[p], event[p], metadata)),
               ownerSeen[p][CurrentToken(p)], how)

\* await fetch(httpUrl) resolves
FetchReturns(p) ==
    /\ Running(p, "fetch")
    /\ HttpGet(ipfsToHttp(tokenURI[p])).ok
    /\ response' = [response EXCEPT ![p] = HttpGet(ipfsToHttp(tokenURI[p]))]
    /\ pc' = [pc EXCEPT ![p] = "json"]
    /\ UNCHANGED <<envVars, propVars, stateVars, passAccount, events, tokenIds,
                   idx, ticket, event, tokenURI, userTickets, ownerSeen,
                   outcome, published, renderVars, imgVars>>

\* await fetch(httpUrl) rejects: the catch of the metadata block
FetchFails(p) ==
    /\ Running(p, "fetch")
    /\ ~HttpGet(ipfsToHttp(tokenURI[p])).ok
    /\ Push(p, PlaceholderMetadata(CurrentToken(p)), "metadataFailed")
    /\ error' = error
    /\ UNCHANGED <<envVars, propVars, renderVars, imgVars>>

\* await response.json() resolves: metadata is the parsed body, as it is
JsonReturns(p) ==
    /\ Running(p, "json")
    /\ response[p].json
    /\ Push(p, response[p].value, "metadataParsed")
    /\ error' = error
    /\ UNCHANGED <<envVars, propVars, renderVars, imgVars>>

\* await response.json() rejects: the catch of the metadata block
JsonFails(p) ==
    /\ Running(p, "json")
    /\ ~response[p].json
    /\ Push(p, PlaceholderMetadata(CurrentToken(p)), "metadataFailed")
    /\ error' = error
    /\ UNCHANGED <<envVars, propVars, renderVars, imgVars>>

\* ------------------------------------------------------------------------
\* MyTickets.jsx: the render body
\* ------------------------------------------------------------------------
\* what the component returns
View ==
    IF ~isConnected THEN "null"
    ELSE IF loading THEN "loading"
    ELSE IF error # Null THEN "error"
    ELSE "list"

RECURSIVE FilterBy(_, _)
FilterBy(list, keep) ==
    IF list = <<>> THEN <<>>
    ELSE (IF keep[1] THEN <<list[1]>> ELSE <<>>) \o FilterBy(Tail(list), Tail(keep))

\* the clock reads of the isUpcoming calls of one filter: one per ticket,
\* none earlier than the one before
ClockReads(n, from) ==
    {r \in [1..n -> Times] :
        /\ \A i \in 1..n : r[i] >= from
        /\ \A i \in 1..(n - 1) : r[i] <= r[i + 1]}

LastRead(r, from) == IF Len(r) = 0 THEN from ELSE r[Len(r)]

\* object.field of a JavaScript object: undefined when the field is missing
Field(object, field) ==
    IF field \in DOMAIN object THEN object[field] ELSE Undefined

\* the event handed to getTicketFallbackImage by renderTicketCard
CardEvent(tk) ==
    [t |-> "object",
     eventId |-> Num(tk.eventId),
     name |-> tk.eventName,
     description |-> IF Truthy(Field(tk.metadata, "description"))
                     THEN tk.metadata.description
                     ELSE Str(<<>>)]

\* reading ticket.metadata.image throws a TypeError when metadata is null
CardThrows(tk) == tk.metadata \in {Null, Undefined}

\* the src of the <img> of renderTicketCard
CardSrc(tk) ==
    IF Truthy(Field(tk.metadata, "image"))
    THEN ipfsToHttp(tk.metadata.image)
    ELSE getTicketFallbackImage(CardEvent(tk), Num(tk.tokenId))

\* the src the onError handler of renderTicketCard installs
OnErrorSrc(tk) ==
    IF tk.tokenId = 0
    THEN Str("https://img.freepik.com/free-photo/traditional-cultural-dance-performance-stage_53876-138776.jpg")
    ELSE Str("https://img.freepik.com/free-vector/realistic-concert-entrance-tickets-set_1017-30605.jpg")

\* the cards of the sections, in the order of the screen
CardsOf(upcoming, used, expired) ==
    LET shown == upcoming \o used \o expired
    IN [i \in 1..Len(shown) |->
           [ticket |-> shown[i], src |-> CardSrc(shown[i]), recovered |-> FALSE]]

\* mutation: the first filter looks at the date alone
GroupTickets_DateOnly ==
    /\ renderPc = "idle"
    /\ mounted
    /\ View = "list"
    /\ \E r1 \in ClockReads(Len(tickets), 0) :
       \E r3 \in ClockReads(Len(tickets), LastRead(r1, 0)) :
          LET upcoming == FilterBy(tickets, [i \in 1..Len(tickets) |->
                              isUpcoming(tickets[i].eventDate, r1[i])])
              used == FilterBy(tickets, [i \in 1..Len(tickets) |-> tickets[i].used])
              expired == FilterBy(tickets, [i \in 1..Len(tickets) |->
                              ~isUpcoming(tickets[i].eventDate, r3[i]) /\ ~tickets[i].used])
          IN /\ upcomingTickets' = upcoming
             /\ usedTickets' = used
             /\ expiredTickets' = expired
             /\ readAt' = [upcoming |-> r1, expired |-> r3]
             /\ IF \E i \in 1..Len(tickets) : CardThrows(tickets[i])
                THEN renderPc' = "threw" /\ cards' = <<>>
                ELSE renderPc' = "grouped" /\ cards' = CardsOf(upcoming, used, expired)
    /\ UNCHANGED <<envVars, propVars, stateVars, passVars, published, imgVars>>

\* the render body of the ticket list: the three filters, each isUpcoming call
\* reading the clock, then the cards of the sections; a card that throws
\* ends the render
GroupTickets ==
    /\ renderPc = "idle"
    /\ mounted
    /\ View = "list"
    /\ \E r1 \in ClockReads(Len(tickets), 0) :
       \E r3 \in ClockReads(Len(tickets), LastRead(r1, 0)) :
          LET upcoming == FilterBy(tickets, [i \in 1..Len(tickets) |->
                              isUpcoming(tickets[i].eventDate, r1[i]) /\ ~tickets[i].used])
              used == FilterBy(tickets, [i \in 1..Len(tickets) |-> tickets[i].used])
              expired == FilterBy(tickets, [i \in 1..Len(tickets) |->
                              ~isUpcoming(tickets[i].eventDate, r3[i]) /\ ~tickets[i].used])
          IN /\ upcomingTickets' = upcoming
             /\ usedTickets' = used
             /\ expiredTickets' = expired
             /\ readAt' = [upcoming |-> r1, expired |-> r3]
             /\ IF \E i \in 1..Len(tickets) : CardThrows(tickets[i])
                THEN renderPc' = "threw" /\ cards' = <<>>
                ELSE renderPc' = "grouped" /\ cards' = CardsOf(upcoming, used, expired)
    /\ UNCHANGED <<envVars, propVars, stateVars, passVars, published, imgVars>>

\* an image of the screen fails to load: its onError handler runs, once
\* (e.target.onerror = null)
ImageError(i) ==
    /\ renderPc = "grouped"
    /\ i \in 1..Len(cards)
    /\ ~cards[i].recovered
    /\ cards' = [cards EXCEPT ![i] = [ticket |-> @.ticket,
                                      src |-> OnErrorSrc(@.ticket),
                                      recovered |-> TRUE]]
    /\ UNCHANGED <<envVars, propVars, stateVars, passVars, published, imgVars,
                   renderPc, upcomingTickets, usedTickets, expiredTickets, readAt>>

\* the screen is over: the next render starts from nothing
RenderReturns ==
    /\ renderPc # "idle"
    /\ renderPc' = "idle"
    /\ upcomingTickets' = <<>>
    /\ usedTickets' = <<>>
    /\ expiredTickets' = <<>>
    /\ readAt' = NoReads
    /\ cards' = <<>>
    /\ UNCHANGED <<envVars, propVars, stateVars, passVars, published, imgVars>>

\* ------------------------------------------------------------------------
\* The component
\* ------------------------------------------------------------------------
PropValues == {Null} \cup {Str(a) : a \in Accounts}

PassStep ==
    \/ \E p \in Passes : GetContractReturns(p)
    \/ \E p \in Passes : GetContractFails(p)
    \/ \E p \in Passes : QueryFilterReturns(p)
    \/ \E p \in Passes : QueryFilterFails(p)
    \/ \E p \in Passes : OwnerOfReturns(p)
    \/ \E p \in Passes : OwnerOfFails(p)
    \/ \E p \in Passes : GetTicketReturns(p)
    \/ \E p \in Passes : GetTicketFails(p)
    \/ \E p \in Passes : GetEventReturns(p)
    \/ \E p \in Passes : GetEventFails(p)
    \/ \E p \in Passes : GetTokenURIReturns(p)
    \/ \E p \in Passes : GetTokenURIFails(p)
    \/ \E p \in Passes : FetchReturns(p)
    \/ \E p \in Passes : FetchFails(p)
    \/ \E p \in Passes : JsonReturns(p)
    \/ \E p \in Passes : JsonFails(p)

\* the steps of one invocation: an awaited call returns or fails
PassSteps(p) ==
    \/ GetContractReturns(p) \/ GetContractFails(p)
    \/ QueryFilterReturns(p) \/ QueryFilterFails(p)
    \/ OwnerOfReturns(p) \/ OwnerOfFails(p)
    \/ GetTicketReturns(p) \/ GetTicketFails(p)
    \/ GetEventReturns(p) \/ GetEventFails(p)
    \/ GetTokenURIReturns(p) \/ GetTokenURIFails(p)
    \/ FetchReturns(p) \/ FetchFails(p)
    \/ JsonReturns(p) \/ JsonFails(p)

\* the component on a live ledger, one invocation at a time
Next ==
    \/ \E t \in TokenIds, a \in LedgerAddresses : LedgerTransfer(t, a)
    \/ \E c \in BOOLEAN, a \in PropValues : PropsChangeWhenSettled(c, a)
    \/ PassStep
    \/ GroupTickets
    \/ \E i \in 1..(2 * (MaxToken + 1)) : ImageError(i)
    \/ RenderReturns

Spec == Init /\ [][Next]_vars

\* the logs the ledger at rest may hold: every token was minted once, to the
\* user, or the first to the user and the others to the other account
LogAtRest(others) ==
    [i \in 1..(IF MaxLog < MaxToken + 1 THEN MaxLog ELSE MaxToken + 1) |->
        [to |-> IF i = 1 THEN UserOnLedger ELSE others, tokenId |-> i - 1]]

\* the component on a ledger at rest, invocations overlapping
InitOverlap ==
    /\ InitComponent
    /\ log \in {LogAtRest(a) : a \in LedgerAddresses}
    /\ ledger \in {SampleLedger(1), SampleLedger(3)}
    /\ ImgIdle

NextOverlap ==
    \/ \E c \in BOOLEAN, a \in PropValues : PropsChange(c, a)
    \/ PassStep
    \/ GroupTickets
    \/ \E i \in 1..(2 * (MaxToken + 1)) : ImageError(i)
    \/ RenderReturns

SpecOverlap == InitOverlap /\ [][NextOverlap]_vars

\* the effect and its invocations alone, one invocation at a time (the render
\* body, which runs to its end without awaiting, left aside), every awaited
\* call returning or failing in the end
NextLive ==
    \/ \E c \in BOOLEAN, a \in PropValues : PropsChangeWhenSettled(c, a)
    \/ PassStep

SpecLive ==
    /\ InitOverlap
    /\ [][NextLive]_vars
    /\ \A p \in Passes : WF_vars(PassSteps(p))

\* ------------------------------------------------------------------------
\* The selectors on their own
\* ------------------------------------------------------------------------
InitImg ==
    /\ InitComponent
    /\ log = <<>>
    /\ ledger = SampleLedger(1)
    /\ imgCall = "none"
    /\ imgEvent \in SampleEvents
    /\ imgTicketId \in SampleTicketIds
    /\ imgResult = Undefined
    /\ imgFirst = Undefined
    /\ imgCount = 0

\* a call of getTicketFallbackImage on the chosen arguments; imgFirst keeps
\* the answer of the first call, imgResult the answer of the last
CallTicketFallback ==
    /\ imgCall \in {"none", "ticket"}
    /\ imgCount < MaxCalls
    /\ imgCall' = "ticket"
    /\ imgCount' = imgCount + 1
    /\ imgResult' = getTicketFallbackImage(imgEvent, imgTicketId)
    /\ imgFirst' = IF imgCount = 0
                   THEN getTicketFallbackImage(imgEvent, imgTicketId)
                   ELSE imgFirst
    /\ UNCHANGED <<imgEvent, imgTicketId, compVars>>

\* a call of getEventFallbackImage on the chosen event
CallEventFallback ==
    /\ imgCall \in {"none", "event"}
    /\ imgCount < MaxCalls
    /\ imgCall' = "event"
    /\ imgCount' = imgCount + 1
    /\ imgResult' = getEventFallbackImage(imgEvent)
    /\ imgFirst' = IF imgCount = 0 THEN getEventFallbackImage(imgEvent) ELSE imgFirst
    /\ UNCHANGED <<imgEvent, imgTicketId, compVars>>

NextImg == CallTicketFallback \/ CallEventFallback

SpecImg == InitImg /\ [][NextImg]_vars

\* ------------------------------------------------------------------------
\* Vocabulary of the properties
\* ------------------------------------------------------------------------
InFlight(p) == ~Ended(p)

TokensOf(list) == {list[i].tokenId : i \in 1..Len(list)}

Elements(seq) == {seq[i] : i \in 1..Len(seq)}

\* how often tokenId occurs in a list of tickets
Occurrences(list, tokenId) ==
    Cardinality({i \in 1..Len(list) : list[i].tokenId = tokenId})

\* the owner lookup of a token returned an address that is the account, case
\* apart
OwnedAtLookup(seen, acct) ==
    seen # NoAddress /\ ToLowerCase(seen) = ToLowerCase(acct)

Published == published # NoPublication

\* the place of a token in the order of the pushes
PushedAt(tokenId) ==
    CHOOSE i \in 1..Len(published.order) : published.order[i] = tokenId

DigitChars == <<"0","1","2","3","4","5","6","7","8","9">>

\* {name: "Ticket #<tokenId>", description: "Metadata unavailable", image: ""}
\* for a token id of one digit
ExpectedPlaceholder(tokenId) ==
    [t |-> "object",
     name |-> [t |-> "string",
               s |-> <<"T","i","c","k","e","t"," ","#", DigitChars[tokenId + 1]>>],
     description |-> [t |-> "string",
                      s |-> <<"M","e","t","a","d","a","t","a"," ",
                              "u","n","a","v","a","i","l","a","b","l","e">>],
     image |-> [t |-> "string", s |-> <<>>]]

\* the metadata of the token cannot be had: the server is down or the body
\* is not JSON
MetadataUnavailable(tokenId) ==
    ledger[tokenId].uri.cid \in {"down", "html"}

\* a Metadata value: {name, description, image}, the image possibly empty
WellFormedMetadata(m) ==
    /\ m.t = "object"
    /\ {"name", "description", "image"} \subseteq DOMAIN m
    /\ m.name.t = "string"
    /\ m.description.t = "string"
    /\ m.image.t = "string"

SortedByDate(list) ==
    \A i \in 1..Len(list) : \A j \in 1..Len(list) :
        i < j => list[i].eventDate <= list[j].eventDate

\* tickets of equal date stand in the order of their pushes
TiesInPushOrder(list) ==
    \A i \in 1..Len(list) : \A j \in 1..Len(list) :
        (i < j /\ list[i].eventDate = list[j].eventDate)
            => PushedAt(list[i].tokenId) < PushedAt(list[j].tokenId)

Buckets == <<upcomingTickets, usedTickets, expiredTickets>>

\* ------------------------------------------------------------------------
\* Properties
\* ------------------------------------------------------------------------

\* C1: ownership filter.  Every ticket an invocation for account A has pushed,
\* and every ticket of the set it publishes, is a token whose ownerOf lookup
\* returned A (case apart); a token whose lookup returned another address is
\* not in the set, Transfer event to A or not.
C1_OwnershipFilter ==
    /\ \A p \in Passes : \A tokenId \in TokensOf(userTickets[p]) :
          OwnedAtLookup(ownerSeen[p][tokenId], passAccount[p])
    /\ Published =>
          \A tokenId \in TokensOf(tickets) :
              OwnedAtLookup(published.ownerSeen[tokenId], published.account)

\* C1 witness: a published pass had a candidate (a Transfer to its account is
\* among its events) whose owner lookup returned another address, and the
\* token is not in the resolved set.
C1_Witness ==
    /\ Published
    /\ \E tokenId \in Elements(published.candidates) :
          /\ \E i \in 1..Len(published.events) :
                /\ published.events[i].tokenId = tokenId
                /\ ToLowerCase(published.events[i].to) = ToLowerCase(published.account)
          /\ published.outcome[tokenId] = "notOwner"
          /\ published.ownerSeen[tokenId] = OtherOnLedger
          /\ published.account = UserAccount
          /\ tokenId \notin TokensOf(tickets)

\* C2: deduplication.  The candidates of an invocation are exactly the
\* distinct token ids of the events the query returned, each once, and no
\* token id occurs twice among the pushed or the published tickets.
C2_Deduplication ==
    /\ \A p \in Passes :
          /\ Elements(tokenIds[p]) = {events[p][i].tokenId : i \in 1..Len(events[p])}
          /\ Cardinality(Elements(tokenIds[p])) = Len(tokenIds[p])
          /\ \A tokenId \in TokenIds : Occurrences(userTickets[p], tokenId) <= 1
    /\ Published =>
          /\ Elements(published.candidates) =
                {published.events[i].tokenId : i \in 1..Len(published.events)}
          /\ Cardinality(Elements(published.candidates)) = Len(published.candidates)
    /\ \A tokenId \in TokenIds : Occurrences(tickets, tokenId) <= 1

\* C2 witness: the query returned two events of one token, and the token is in
\* the resolved set, once.
C2_Witness ==
    /\ Published
    /\ \E i \in 1..Len(published.events) : \E j \in 1..Len(published.events) :
          /\ i < j
          /\ published.events[i].tokenId = published.events[j].tokenId
          /\ Occurrences(tickets, published.events[i].tokenId) = 1
    /\ Len(published.candidates) = 1

\* C3: isolation.  An invocation in which a lookup of a token threw is not in
\* the error state on that account: it goes on, every candidate is processed
\* before the set is published, and every candidate whose owner lookup
\* returned the account and none of whose lookups threw is in the set.
C3_PerTokenIsolation ==
    /\ \A p \in Passes :
          /\ (\E tokenId \in TokenIds : outcome[p][tokenId] = "lookupFailed")
                => pc[p] # "failed"
          /\ \A tokenId \in Elements(tokenIds[p]) :
                (/\ outcome[p][tokenId] \notin {"pending", "lookupFailed"}
                 /\ OwnedAtLookup(ownerSeen[p][tokenId], passAccount[p]))
                    => tokenId \in TokensOf(userTickets[p])
    /\ Published =>
          \A tokenId \in Elements(published.candidates) :
              /\ published.outcome[tokenId] # "pending"
              /\ (/\ published.outcome[tokenId] # "lookupFailed"
                  /\ OwnedAtLookup(published.ownerSeen[tokenId], published.account))
                    => tokenId \in TokensOf(tickets)

\* C3 witness: a lookup of one candidate threw, another candidate is in the
\* published set, and no error is set.
C3_Witness ==
    /\ Published
    /\ error = Null
    /\ \E failed \in Elements(published.candidates) :
       \E kept \in Elements(published.candidates) :
          /\ failed # kept
          /\ published.outcome[failed] = "lookupFailed"
          /\ failed \notin TokensOf(tickets)
          /\ kept \in TokensOf(tickets)

\* C4: metadata resolution fails inside its boundary.  A token that passed the
\* ownership test and the ledger lookups, and whose metadata cannot be
\* fetched or parsed, is in the set, with exactly the placeholder
\* {name: "Ticket #<tokenId>", description: "Metadata unavailable", image: ""}.
C4_MetadataPlaceholder ==
    /\ \A p \in Passes : \A i \in 1..Len(userTickets[p]) :
          MetadataUnavailable(userTickets[p][i].tokenId)
              => userTickets[p][i].metadata =
                    ExpectedPlaceholder(userTickets[p][i].tokenId)
    /\ Published =>
          \A tokenId \in Elements(published.candidates) :
              (/\ MetadataUnavailable(tokenId)
               /\ published.outcome[tokenId] # "lookupFailed"
               /\ OwnedAtLookup(published.ownerSeen[tokenId], published.account))
                 => \E i \in 1..Len(tickets) :
                       /\ tickets[i].tokenId = tokenId
                       /\ tickets[i].metadata = ExpectedPlaceholder(tokenId)

\* C4 witness: the set holds a token whose server is down and a token whose
\* body is not JSON, both with the placeholder.
C4_Witness ==
    /\ Published
    /\ \E i \in 1..Len(tickets) : \E j \in 1..Len(tickets) :
          /\ ledger[tickets[i].tokenId].uri.cid = "down"
          /\ ledger[tickets[j].tokenId].uri.cid = "html"
          /\ tickets[i].metadata = ExpectedPlaceholder(tickets[i].tokenId)
          /\ tickets[j].metadata = ExpectedPlaceholder(tickets[j].tokenId)

\* C5: every ticket of the resolved set carries a well-formed Metadata value,
\* whatever the metadata endpoint returned.
C5_MetadataWellFormed ==
    \A i \in 1..Len(tickets) : WellFormedMetadata(tickets[i].metadata)

\* C6: a scan failure is fatal and nothing is rendered in part.  The step in
\* which getContract or queryFilter fails leaves error set, loading false and
\* the tickets as they were; setTickets is called only in the step that ends
\* an invocation, every candidate being processed; and the groups of the
\* ticket list are never computed while error is set or loading.
C6_ScanFailureIsFatal ==
    [][/\ \A p \in Passes :
             (pc[p] # "failed" /\ pc'[p] = "failed")
                => /\ pc[p] \in {"getContract", "queryFilter"}
                   /\ error' = ErrorMessage
                   /\ loading' = FALSE
                   /\ tickets' = tickets
                   /\ published' = published
       /\ (tickets' # tickets \/ published' # published)
             => /\ \E p \in Passes : InFlight(p) /\ pc'[p] = "done"
                /\ \A tokenId \in Elements(published'.candidates) :
                      published'.outcome[tokenId] # "pending"
       /\ (error' # Null) => (View' # "list" /\ renderPc' # "grouped")
      ]_vars

\* C6 witness: an invocation has failed in its scan while the tickets of an
\* earlier one are held: the error view is shown, not the list.
C6_Witness ==
    /\ \E p \in Passes : pc[p] = "failed"
    /\ error = ErrorMessage
    /\ ~loading
    /\ tickets # <<>>
    /\ View = "error"

\* C7: partition.  When the three groups are computed, every ticket of the
\* resolved set is in exactly one of them.
C7_PartitionComplete ==
    renderPc = "grouped" =>
        \A i \in 1..Len(tickets) :
            Occurrences(upcomingTickets, tickets[i].tokenId)
            + Occurrences(usedTickets, tickets[i].tokenId)
            + Occurrences(expiredTickets, tickets[i].tokenId) = 1

\* C8: order.  The resolved set and each of the three groups are sorted
\* non-decreasing by eventDate, tickets of equal date in the order in which
\* they were pushed.
C8_BucketsSortedStable ==
    /\ SortedByDate(tickets)
    /\ Published => TiesInPushOrder(tickets)
    /\ renderPc = "grouped" =>
          \A b \in 1..3 : SortedByDate(Buckets[b]) /\ TiesInPushOrder(Buckets[b])

\* C8 witness: a group holds two tickets of one date, the token pushed first
\* having the greater id.
C8_Witness ==
    /\ renderPc = "grouped"
    /\ Published
    /\ \E b \in 1..3 :
          /\ Len(Buckets[b]) = 2
          /\ Buckets[b][1].eventDate = Buckets[b][2].eventDate
          /\ Buckets[b][1].tokenId > Buckets[b][2].tokenId

\* the texts without 'cultural' in any case
PlainTexts == {
    Undefined,
    Str(<<>>),
    Str(<<"R","o","c","k">>),
    Str(<<"c","u","l","t","u","r","a">>) }

\* C9: getTicketFallbackImage(event, 0) is the first cultural image, for every
\* event object, whatever its name and description.
C9_TicketZeroIsCultural ==
    (imgCall = "ticket" /\ imgEvent.t = "object" /\ imgTicketId = Num(0))
        => imgResult = Str("https://img.freepik.com/free-photo/traditional-cultural-dance-performance-stage_53876-138776.jpg")

\* C9 witness: ticket 0 of an event without a name whose description mentions
\* 'Cultural' got the first cultural image.
C9_Witness ==
    /\ imgCall = "ticket"
    /\ imgTicketId = Num(0)
    /\ imgEvent.t = "object"
    /\ imgEvent.name = Undefined
    /\ imgEvent.description = Str(<<"C","u","l","t","u","r","a","l"," ","F","e","s","t">>)
    /\ imgResult = Str(CULTURAL_TICKET_IMAGES[1])

\* C10: for a ticket id n > 0 and an event object whose name and description
\* do not mention 'cultural', getTicketFallbackImage returns
\* DEFAULT_TICKET_IMAGES[n mod |DEFAULT_TICKET_IMAGES|], on the first call and
\* on the next.
C10_DefaultImageByModulo ==
    (/\ imgCall = "ticket"
     /\ imgEvent.t = "object"
     /\ imgTicketId.t = "number"
     /\ imgTicketId.n # 0
     /\ imgEvent.name \in PlainTexts
     /\ imgEvent.description \in PlainTexts)
        => /\ imgResult = Str(DEFAULT_TICKET_IMAGES[(imgTicketId.n % Len(DEFAULT_TICKET_IMAGES)) + 1])
           /\ imgFirst = imgResult

\* C10 witness: the selector was called twice for ticket 6 of a plain event
\* and answered with the second default image.
C10_Witness ==
    /\ imgCall = "ticket"
    /\ imgCount = 2
    /\ imgTicketId = Num(6)
    /\ imgEvent.t = "object"
    /\ imgEvent.name = Str(<<"R","o","c","k">>)
    /\ imgEvent.description = Undefined
    /\ imgResult = Str(DEFAULT_TICKET_IMAGES[2])
    /\ imgFirst = imgResult

\* the texts with 'cultural' in some case
CulturalTexts == {
    Str(<<"C","u","l","t","u","r","a","l"," ","F","e","s","t">>),
    Str(<<"A","G","R","I","C","U","L","T","U","R","A","L">>) }

\* C16: for a ticket id n > 0 and an event object whose name or description
\* mentions 'cultural' in any case, getTicketFallbackImage returns
\* CULTURAL_TICKET_IMAGES[n mod |CULTURAL_TICKET_IMAGES|], never an image of
\* the default table.
C16_CulturalImageByModulo ==
    (/\ imgCall = "ticket"
     /\ imgEvent.t = "object"
     /\ imgTicketId.t = "number"
     /\ imgTicketId.n # 0
     /\ (imgEvent.name \in CulturalTexts \/ imgEvent.description \in CulturalTexts))
        => imgResult =
              Str(CULTURAL_TICKET_IMAGES[(imgTicketId.n % Len(CULTURAL_TICKET_IMAGES)) + 1])

\* C16 witness: ticket 6 of an event named in capitals, without a description,
\* got the second cultural image.
C16_Witness ==
    /\ imgCall = "ticket"
    /\ imgTicketId = Num(6)
    /\ imgEvent.t = "object"
    /\ imgEvent.name = Str(<<"A","G","R","I","C","U","L","T","U","R","A","L">>)
    /\ imgEvent.description = Undefined
    /\ imgResult = Str(CULTURAL_TICKET_IMAGES[2])

\* C12: cancellation of stale invocations.  While the component is rendered
\* with an account, the step in which an invocation calls setTickets is a
\* step of an invocation started for that account: an invocation started for
\* an earlier account never writes the tickets after the change.
C12_StalePassDiscarded ==
    [][\A p \in Passes :
          (pc[p] # "done" /\ pc'[p] = "done" /\ isConnected /\ Truthy(account))
             => account = Str(passAccount[p])
      ]_vars

\* C14: the records live for one invocation.  Whenever the ticket list is
\* displayed (connected, not loading, no error), the tickets it shows were
\* published by an invocation for the account the component is rendered with.
C14_DisplayedTicketsOfCurrentAccount ==
    (mounted /\ View = "list" /\ tickets # <<>>)
        => (Published /\ account = Str(published.account))

\* C20: the error is absorbing.  Once error is set no step resets or replaces
\* it, and the groups of the ticket list are not computed again: the error
\* view stands, whatever invocation starts or publishes later.
C20_ErrorIsAbsorbing ==
    [][error # Null => (error' = error /\ View' # "list" /\ renderPc' # "grouped")]_vars

\* C20 witness: after an invocation set the error, a later invocation has
\* published tickets, and the error view is shown.
C20_Witness ==
    /\ error = ErrorMessage
    /\ pc[1] = "done"
    /\ Published
    /\ account = Str(published.account)
    /\ tickets # <<>>
    /\ ~loading
    /\ View = "error"

\* the positions of an invocation inside the loop, in the order of the code
DetailStages == {"getTicket", "getEvent", "getTokenURI", "fetch", "json"}
LoopStages == {"ownerOf"} \cup DetailStages

\* C18: the stages of a token.  A detail or metadata call is outstanding only
\* for a token whose ownerOf returned the account of the invocation; getEvent
\* is called with the eventId getTicket returned; getTokenURI and the fetch
\* come after both; while ownerOf is outstanding nothing of the token is
\* held; and the tokens before the current one have ended, those from it on
\* have not begun.
C18_StageOrdering ==
    \A p \in Passes :
        pc[p] \in LoopStages =>
            /\ idx[p] \in 1..Len(tokenIds[p])
            /\ pc[p] \in DetailStages =>
                  OwnedAtLookup(ownerSeen[p][CurrentToken(p)], passAccount[p])
            /\ pc[p] = "ownerOf" =>
                  /\ ownerSeen[p][CurrentToken(p)] = NoAddress
                  /\ ticket[p] = Undefined
            /\ pc[p] \in {"ownerOf", "getTicket"} =>
                  (event[p] = Undefined /\ tokenURI[p] = Undefined)
            /\ pc[p] \in DetailStages \ {"getTicket"} =>
                  /\ ticket[p] # Undefined
                  /\ ticket[p].eventId = ledger[CurrentToken(p)].eventId
            /\ pc[p] = "getEvent" =>
                  (event[p] = Undefined /\ tokenURI[p] = Undefined)
            /\ pc[p] \in {"getTokenURI", "fetch", "json"} =>
                  event[p] = EventTable(ticket[p].eventId)
            /\ pc[p] = "getTokenURI" => tokenURI[p] = Undefined
            /\ pc[p] \in {"fetch", "json"} => tokenURI[p] # Undefined
            /\ pc[p] = "json" <=> response[p] # Undefined
            /\ \A i \in 1..Len(tokenIds[p]) :
                  (i < idx[p]) <=> (outcome[p][tokenIds[p][i]] # "pending")

\* C18 witness: the owner lookup of the first token of an invocation threw,
\* and the body of the metadata of the second is being read.
C18_Witness ==
    \E p \in Passes :
        /\ pc[p] = "json"
        /\ idx[p] = 2
        /\ outcome[p][tokenIds[p][1]] = "lookupFailed"
        /\ ownerSeen[p][tokenIds[p][1]] = NoAddress
        /\ userTickets[p] = <<>>
        /\ ticket[p] # Undefined
        /\ event[p] # Undefined

\* C13: idempotence.  An invocation that ends having seen what the last
\* publishing invocation saw (the same account, the same events, the same
\* owners, the same outcome of every token) publishes the ticket sequence
\* that is held: the same records in the same order.
C13_Idempotence ==
    [][\A p \in Passes :
          (/\ pc[p] # "done" /\ pc'[p] = "done"
           /\ published # NoPublication
           /\ ToLowerCase(published.account) = ToLowerCase(passAccount[p])
           /\ published'.events = published.events
           /\ published'.ownerSeen = published.ownerSeen
           /\ published'.outcome = published.outcome)
             => tickets' = tickets
      ]_vars

\* C13 witness: an invocation has published two tickets, of which one with
\* metadata of the server and one with the placeholder, after an invocation
\* that saw the same.
C13_Witness ==
    /\ Published
    /\ published.again
    /\ Len(tickets) = 2
    /\ \E i \in 1..2 : published.outcome[tickets[i].tokenId] = "metadataParsed"
    /\ \E i \in 1..2 : published.outcome[tickets[i].tokenId] = "metadataFailed"

\* C19: termination.  An invocation in flight ends; the step that ends it
\* leaves loading false, and either it publishes its tickets and leaves the
\* error as it was, or it sets the error and leaves the tickets as they were.
C19_PassTerminates ==
    /\ [][\A p \in Passes :
            (InFlight(p) /\ pc'[p] \in {"idle", "done", "failed"})
               => /\ loading' = FALSE
                  /\ \/ /\ pc'[p] = "done"
                        /\ published'.account = passAccount[p]
                        /\ error' = error
                     \/ /\ pc'[p] = "failed"
                        /\ error' = ErrorMessage
                        /\ tickets' = tickets
                        /\ published' = published
        ]_vars
    /\ \A p \in Passes : InFlight(p) ~> Ended(p)

\* C19 witness: an invocation has ended and published two tickets; loading is
\* false and no error is set.
C19_Witness ==
    /\ pc[1] = "done"
    /\ ~loading
    /\ error = Null
    /\ Published
    /\ account = Str(published.account)
    /\ Len(tickets) = 2

\* C11: the two call sites agree.  The src the onError handler installed on a
\* card is the image getTicketFallbackImage returns for the event and the
\* tokenId of the card's ticket.
C11_CallSitesAgree ==
    \A i \in 1..Len(cards) :
        cards[i].recovered
            => cards[i].src =
                  getTicketFallbackImage(CardEvent(cards[i].ticket),
                                         Num(cards[i].ticket.tokenId))

\* the locators of the two ticket tables
TicketImages ==
    {Str(DEFAULT_TICKET_IMAGES[i]) : i \in 1..Len(DEFAULT_TICKET_IMAGES)}
        \cup {Str(CULTURAL_TICKET_IMAGES[i]) : i \in 1..Len(CULTURAL_TICKET_IMAGES)}

C17_ImageNeverAbsent ==
    /\ renderPc # "threw"
    /\ \A i \in 1..Len(cards) :
          ~cards[i].recovered =>
              IF Truthy(Field(cards[i].ticket.metadata, "image"))
              THEN cards[i].src = ipfsToHttp(cards[i].ticket.metadata.image)
              ELSE cards[i].src \in TicketImages

====
